---- MODULE Spec2Model ----
\* Finance Management System API (src/main.py): the four collections, the
\* create handlers with their referential checks, the month filter, the
\* transaction listing and the summary report.
\*
\* Money is counted in thousandths of a currency unit (0.004 is 4, 2.00 is
\* 2000), so that round(x, 2) is rounding to a multiple of 10.
EXTENDS Integers, Sequences, FiniteSets, TLC

VARIABLES account, category, transaction, budget, sm, last

vars == <<account, category, transaction, budget, sm, last>>
store == <<account, category, transaction, budget>>

\* ---------------------------------------------------------------- bounds
\* Total number of documents the store may hold.
MaxDocs == 4

\* ------------------------------------------------------- values and inputs
Date(y, m, d) == [year |-> y, month |-> m, day |-> d]

\* A month token as it arrives in a request: "YYYY-MM" text (kind "ym", any
\* two digits for MM), text of another shape (kind "text"), or absent.
Tok(y, m) == [kind |-> "ym", y |-> y, m |-> m]
NoMonth == [kind |-> "none", y |-> 0, m |-> 0]
TextMonth == [kind |-> "text", y |-> 0, m |-> 0]

\* An id as it arrives in a request: the 24 hex digits of an ObjectId in lower
\* case (what str(ObjectId) prints), the same digits in upper case, or text
\* that is no ObjectId at all.
Canon(n) == [form |-> "canon", oid |-> n]
Upper(n) == [form |-> "upper", oid |-> n]
Malformed == [form |-> "malformed", oid |-> 0]
NoId == [form |-> "none", oid |-> 0]

Types == {"income", "expense"}
Dates == {Date(2024, 12, 1), Date(2024, 12, 31), Date(2025, 1, 1)}
QueryMonths == {NoMonth, Tok(2024, 12), Tok(2025, 1), Tok(2024, 13), TextMonth}

\* Request bodies. Amounts and types are within the schema's ranges (a body
\* outside them never reaches a handler); the month and the ids take every
\* shape the handlers tell apart.
AccountInputs == [initial_balance : {4, 1000}]
CategoryInputs == [type : Types]
Tx(d, amt, ty, cat, acc) ==
    [date |-> d, amount |-> amt, type |-> ty, category_id |-> cat, account_id |-> acc]
TransactionInputs ==
    \* every date, both types, a whole amount
    {Tx(d, 2000, ty, Canon(1), Canon(1)) : d \in Dates, ty \in Types}
    \* an amount below a cent
    \cup {Tx(Date(2024, 12, 1), 4, "expense", Canon(1), Canon(1))}
    \* the account's id in upper case, an unknown id, text that is no id
    \cup {Tx(Date(2024, 12, 1), 2000, "income", Canon(1), acc) :
            acc \in {Upper(1), Canon(2), Malformed}}
    \cup {Tx(Date(2024, 12, 1), 2000, "expense", cat, Canon(1)) :
            cat \in {Canon(2), Malformed}}
BudgetInputs ==
    [category_id : {Canon(1), Canon(2), Malformed},
     month : {Tok(2024, 12), Tok(2024, 13), TextMonth},
     amount : {1004}]

\* Inputs of the interleaved specification: whole amounts, canonical ids.
ConcAccountInputs == [initial_balance : {1000}]
ConcCategoryInputs == [type : {"expense"}]
ConcTransactionInputs ==
    {Tx(Date(2024, 12, 1), 2000, ty, Canon(1), Canon(1)) : ty \in Types}
ConcQueryMonths == {NoMonth, Tok(2024, 12)}

\* ------------------------------------------------------------- helpers
RECURSIVE SumSeq(_)
SumSeq(s) == IF s = <<>> THEN 0 ELSE Head(s) + SumSeq(Tail(s))

Map(F(_), s) == [i \in 1..Len(s) |-> F(s[i])]

\* round(x, 2): to the nearest hundredth, a tie to the even one.
Round2(x) ==
    LET q == x \div 10
        r == x % 10
    IN  IF r < 5 THEN q * 10
        ELSE IF r > 5 THEN (q + 1) * 10
        ELSE IF q % 2 = 0 THEN q * 10 ELSE (q + 1) * 10

\* bson.ObjectId(text): accepts 24 hex digits of either case, raises InvalidId
\* on anything else; str(oid) prints lower case.
ObjectIdValid(s) == s.form \in {"canon", "upper"}
ObjectId(s) == s.oid
Str(oid) == Canon(oid)

\* db[coll].find_one({"_id": oid}): the documents found (none or one).
find_one(coll, oid) == {i \in 1..Len(coll) : coll[i]._id = oid}

\* date.isoformat() / datetime.isoformat(): text whose order as text is the
\* order of its zero-padded fields, written as the tuple of those fields.
isoformat_date(d) == <<d.year, d.month, d.day>>
isoformat_datetime(t) == <<t>>
fromisoformat(s) == Date(s[1], s[2], s[3])

\* Text comparison of two such strings (Python str <).
RECURSIVE StrLess(_, _)
StrLess(a, b) ==
    IF b = <<>> THEN FALSE
    ELSE IF a = <<>> THEN TRUE
    ELSE IF Head(a) # Head(b) THEN Head(a) < Head(b)
    ELSE StrLess(Tail(a), Tail(b))

\* datetime.date comparison.
DateLE(a, b) ==
    \/ a.year < b.year
    \/ a.year = b.year /\ a.month < b.month
    \/ a.year = b.year /\ a.month = b.month /\ a.day <= b.day
DateLT(a, b) == DateLE(a, b) /\ a # b

serialize(doc) ==
    [k \in (DOMAIN doc \ {"_id"}) \cup {"id"} |->
        IF k = "id" THEN Str(doc._id)
        ELSE IF k = "date" THEN isoformat_date(doc.date)
        ELSE IF k = "created_at" THEN isoformat_datetime(doc.created_at)
        ELSE doc[k]]

\* Query(None, pattern=r"^\d{4}-\d{2}$") and Field(..., pattern=...).
MatchesPattern(month) == month.kind = "ym"

\* strptime(month + "-01", "%Y-%m-%d") raises ValueError unless MM is 01..12.
MonthParses(month) == month.m \in 1..12 /\ month.y >= 1

\* month_range without the December branch.
month_range_no_rollover(month) ==
    LET start == Date(month.y, month.m, 1)
    IN  <<start, Date(start.year, (start.month % 12) + 1, 1)>>

month_range(month) ==
    LET start == Date(month.y, month.m, 1)
        next_month == IF start.month = 12
                      THEN Date(start.year + 1, 1, 1)
                      ELSE Date(start.year, start.month + 1, 1)
    IN  <<start, next_month>>

in_month(d, month) ==
    LET r == month_range(month)
        dd == fromisoformat(d)
    IN  DateLE(r[1], dd) /\ DateLT(dd, r[2])

SelectInMonth(items, month) == SelectSeq(items, LAMBDA t : in_month(t.date, month))

\* ---------------------------------------------------------------- store
NumDocs == Len(account) + Len(category) + Len(transaction) + Len(budget)

\* create_document(collection, payload): appends the payload's fields as one
\* document with a fresh _id and a creation timestamp; returns str(_id). The
\* _id and the timestamp are the document's rank in its collection: ids are
\* only compared within a collection, timestamps only for their order.
NewDoc(coll, payload) ==
    [k \in DOMAIN payload \cup {"_id", "created_at"} |->
        IF k = "_id" THEN Len(coll) + 1
        ELSE IF k = "created_at" THEN Len(coll) + 1
        ELSE payload[k]]
create_document(coll, payload) == Append(coll, NewDoc(coll, payload))

\* get_documents(collection): every document, in insertion order.
get_documents(coll) == coll

\* ------------------------------------------------------------ responses
Request(month, account_id, category_id) ==
    [month |-> month, account_id |-> account_id, category_id |-> category_id]

Response(op, req, status, detail, reads, body) ==
    [op |-> op, req |-> req, status |-> status, detail |-> detail,
     reads |-> reads, body |-> body]

Idle == [pc |-> "idle"]

Init ==
    /\ account = <<>>
    /\ category = <<>>
    /\ transaction = <<>>
    /\ budget = <<>>
    /\ sm = Idle
    /\ last = Response("none", Request(NoMonth, NoId, NoId), 0, "", 0, <<>>)

\* ------------------------------------------------------------- handlers
create_account(payload) ==
    /\ NumDocs < MaxDocs
    /\ account' = create_document(account, payload)
    /\ last' = Response("create_account", Request(NoMonth, NoId, NoId), 200, "", 0,
                        Str(Len(account) + 1))
    /\ UNCHANGED <<category, transaction, budget, sm>>

create_category(payload) ==
    /\ NumDocs < MaxDocs
    /\ category' = create_document(category, payload)
    /\ last' = Response("create_category", Request(NoMonth, NoId, NoId), 200, "", 0,
                        Str(Len(category) + 1))
    /\ UNCHANGED <<account, transaction, budget, sm>>

create_transaction(payload) ==
    LET req == Request(NoMonth, payload.account_id, payload.category_id)
        fail(status, detail, reads) ==
            /\ last' = Response("create_transaction", req, status, detail, reads, <<>>)
            /\ UNCHANGED <<account, category, transaction, budget, sm>>
    IN  IF ~ObjectIdValid(payload.account_id)
        THEN fail(500, "InvalidId", 0)
        ELSE IF find_one(account, ObjectId(payload.account_id)) = {}
        THEN fail(400, "Account not found", 1)
        ELSE IF ~ObjectIdValid(payload.category_id)
        THEN fail(500, "InvalidId", 1)
        ELSE IF find_one(category, ObjectId(payload.category_id)) = {}
        THEN fail(400, "Category not found", 2)
        ELSE /\ NumDocs < MaxDocs
             /\ transaction' = create_document(transaction, payload)
             /\ last' = Response("create_transaction", req, 200, "", 2,
                                 Str(Len(transaction) + 1))
             /\ UNCHANGED <<account, category, budget, sm>>

\* create_budget without the check of the category's type.
create_budget_any_type(payload) ==
    LET req == Request(payload.month, NoId, payload.category_id)
        fail(status, detail, reads) ==
            /\ last' = Response("create_budget", req, status, detail, reads, <<>>)
            /\ UNCHANGED <<account, category, transaction, budget, sm>>
    IN  IF ~MatchesPattern(payload.month)
        THEN fail(422, "validation", 0)
        ELSE IF ~ObjectIdValid(payload.category_id)
        THEN fail(500, "InvalidId", 0)
        ELSE IF find_one(category, ObjectId(payload.category_id)) = {}
        THEN fail(400, "Category not found", 1)
        ELSE /\ NumDocs < MaxDocs
             /\ budget' = create_document(budget, payload)
             /\ last' = Response("create_budget", req, 200, "", 1, Str(Len(budget) + 1))
             /\ UNCHANGED <<account, category, transaction, sm>>

create_budget(payload) ==
    LET req == Request(payload.month, NoId, payload.category_id)
        fail(status, detail, reads) ==
            /\ last' = Response("create_budget", req, status, detail, reads, <<>>)
            /\ UNCHANGED <<account, category, transaction, budget, sm>>
        cat == find_one(category, ObjectId(payload.category_id))
    IN  IF ~MatchesPattern(payload.month)
        THEN fail(422, "validation", 0)
        ELSE IF ~ObjectIdValid(payload.category_id)
        THEN fail(500, "InvalidId", 0)
        ELSE IF cat = {}
        THEN fail(400, "Category not found", 1)
        ELSE IF \E i \in cat : category[i].type # "expense"
        THEN fail(400, "Budget only allowed for expense categories", 1)
        ELSE /\ NumDocs < MaxDocs
             /\ budget' = create_document(budget, payload)
             /\ last' = Response("create_budget", req, 200, "", 1, Str(Len(budget) + 1))
             /\ UNCHANGED <<account, category, transaction, sm>>

\* Python's list.sort(key=..., reverse=True): descending by the key, elements
\* with equal keys keeping their order.
\* The sort key without the creation timestamp.
SortKey_date_only(x) == <<x.date, <<>>>>

SortKey(x) == <<x.date, x.created_at>>
KeyLess(a, b) == StrLess(a[1], b[1]) \/ (a[1] = b[1] /\ StrLess(a[2], b[2]))

RECURSIVE InsertDesc(_, _)
InsertDesc(s, x) ==
    IF s = <<>> THEN <<x>>
    ELSE IF KeyLess(SortKey(Head(s)), SortKey(x)) THEN <<x>> \o s
    ELSE <<Head(s)>> \o InsertDesc(Tail(s), x)

RECURSIVE SortDesc(_)
SortDesc(items) ==
    IF items = <<>> THEN <<>>
    ELSE InsertDesc(SortDesc(SubSeq(items, 1, Len(items) - 1)), items[Len(items)])

list_transactions(month) ==
    LET req == Request(month, NoId, NoId)
        items == Map(serialize, get_documents(transaction))
    IN  /\ last' =
            IF month.kind # "none" /\ ~MatchesPattern(month)
            THEN Response("list_transactions", req, 422, "validation", 0, <<>>)
            ELSE IF month.kind # "none" /\ ~MonthParses(month)
            THEN Response("list_transactions", req, 500, "ValueError", 1, <<>>)
            ELSE Response("list_transactions", req, 200, "", 1,
                          SortDesc(IF month.kind # "none"
                                   THEN SelectInMonth(items, month) ELSE items))
        /\ UNCHANGED <<account, category, transaction, budget, sm>>

list_budgets(month) ==
    LET req == Request(month, NoId, NoId)
        items == Map(serialize, get_documents(budget))
    IN  /\ last' =
            IF month.kind # "none" /\ ~MatchesPattern(month)
            THEN Response("list_budgets", req, 422, "validation", 0, <<>>)
            ELSE Response("list_budgets", req, 200, "", 1,
                          IF month.kind # "none"
                          THEN SelectSeq(items, LAMBDA b : b.month = month) ELSE items)
        /\ UNCHANGED <<account, category, transaction, budget, sm>>

\* ------------------------------------------------------------- summary
\* The handler reads the store five times; each operator below is the code
\* from one read up to the next, on the documents that read returned.
SumAmounts(txs, ty) ==
    SumSeq(Map(LAMBDA t : IF t.type = ty THEN t.amount ELSE 0, txs))

\* lines 205: accounts
sm_accounts(month, accounts_read) ==
    [pc |-> "categories", month |-> month, accounts |-> Map(serialize, accounts_read)]

\* line 206: categories
sm_categories(s, categories_read) ==
    [pc |-> "txs", month |-> s.month, accounts |-> s.accounts,
     categories |-> Map(serialize, categories_read)]

\* lines 207-217: transactions, the month filter, the totals
sm_txs(s, txs_read) ==
    LET all == Map(serialize, txs_read)
    IN  IF s.month.kind # "none" /\ ~MonthParses(s.month)
        THEN [pc |-> "error"]
        ELSE LET txs == IF s.month.kind # "none" THEN SelectInMonth(all, s.month) ELSE all
             IN  [pc |-> "all_txs", month |-> s.month, accounts |-> s.accounts,
                  categories |-> s.categories, txs |-> txs,
                  total_income |-> SumAmounts(txs, "income"),
                  total_expense |-> SumAmounts(txs, "expense")]

\* lines 222-230: one account's running balance over all_txs
AccountBalance(acc, all_txs) ==
    acc.initial_balance
    + SumSeq(Map(LAMBDA t : IF t.account_id = acc.id
                            THEN (IF t.type = "income" THEN t.amount ELSE 0 - t.amount)
                            ELSE 0,
                 all_txs))

\* lines 231-235: the entry of account_balances
BalanceEntry(acc, all_txs) ==
    [id |-> acc.id, balance |-> Round2(AccountBalance(acc, all_txs))]

\* line 237
OverallBalance(account_balances) ==
    Round2(SumSeq(Map(LAMBDA v : v.balance, account_balances)))

\* lines 220-237: the second read of the transactions, the balances
sm_all_txs(s, txs_read) ==
    LET all_txs == Map(serialize, txs_read)
        account_balances == Map(LAMBDA acc : BalanceEntry(acc, all_txs), s.accounts)
    IN  [pc |-> "budgets", month |-> s.month, categories |-> s.categories,
         txs |-> s.txs, total_income |-> s.total_income,
         total_expense |-> s.total_expense,
         account_balances |-> account_balances,
         overall_balance |-> OverallBalance(account_balances)]

\* lines 246-248
Spent(b, txs) ==
    SumSeq(Map(LAMBDA t : IF t.category_id = b.category_id /\ t.type = "expense"
                          THEN t.amount ELSE 0,
               txs))

\* The entry with remaining clamped at zero.
BudgetEntry_clamped(b, month, txs) ==
    [budget_id |-> b.id, category_id |-> b.category_id, month |-> month,
     amount |-> b.amount, spent |-> Round2(Spent(b, txs)),
     remaining |-> IF b.amount - Spent(b, txs) < 0 THEN 0
                   ELSE Round2(b.amount - Spent(b, txs))]

\* lines 249-256
BudgetEntry(b, month, txs) ==
    [budget_id |-> b.id, category_id |-> b.category_id, month |-> month,
     amount |-> b.amount, spent |-> Round2(Spent(b, txs)),
     remaining |-> Round2(b.amount - Spent(b, txs))]

\* line 264
SummaryLimit == 50
RecentTransactions(txs) ==
    SubSeq(txs, 1, IF Len(txs) < SummaryLimit THEN Len(txs) ELSE SummaryLimit)

\* lines 240-266: the budgets, the response body
sm_budgets(s, budgets_read) ==
    LET budgets == Map(serialize, budgets_read)
        budget_status ==
            IF s.month.kind # "none"
            THEN Map(LAMBDA b : BudgetEntry(b, s.month, s.txs),
                     SelectSeq(budgets, LAMBDA b : b.month = s.month))
            ELSE <<>>
    IN  [total_income |-> Round2(s.total_income),
         total_expense |-> Round2(s.total_expense),
         overall_balance |-> s.overall_balance,
         accounts |-> s.account_balances,
         categories |-> s.categories,
         transactions |-> RecentTransactions(s.txs),
         budgets |-> budget_status]

SummaryResponse(month, status, detail, reads, body) ==
    Response("summary", Request(month, NoId, NoId), status, detail, reads, body)

\* The whole handler with no other request in between.
summary(month) ==
    LET s3 == sm_txs(sm_categories(sm_accounts(month, get_documents(account)),
                                   get_documents(category)),
                     get_documents(transaction))
    IN  /\ last' =
            IF month.kind # "none" /\ ~MatchesPattern(month)
            THEN SummaryResponse(month, 422, "validation", 0, <<>>)
            ELSE IF s3.pc = "error"
            THEN SummaryResponse(month, 500, "ValueError", 3, <<>>)
            ELSE SummaryResponse(month, 200, "", 5,
                    sm_budgets(sm_all_txs(s3, get_documents(transaction)),
                               get_documents(budget)))
        /\ UNCHANGED <<account, category, transaction, budget, sm>>

\* The handler one store read at a time, other requests running in between.
summary_accounts(month) ==
    /\ sm.pc = "idle"
    /\ IF month.kind # "none" /\ ~MatchesPattern(month)
       THEN /\ last' = SummaryResponse(month, 422, "validation", 0, <<>>)
            /\ UNCHANGED sm
       ELSE /\ sm' = sm_accounts(month, get_documents(account))
            /\ UNCHANGED last
    /\ UNCHANGED store

summary_categories ==
    /\ sm.pc = "categories"
    /\ sm' = sm_categories(sm, get_documents(category))
    /\ UNCHANGED <<store, last>>

summary_txs ==
    /\ sm.pc = "txs"
    /\ LET s3 == sm_txs(sm, get_documents(transaction))
       IN  IF s3.pc = "error"
           THEN /\ last' = SummaryResponse(sm.month, 500, "ValueError", 3, <<>>)
                /\ sm' = Idle
           ELSE /\ sm' = s3
                /\ UNCHANGED last
    /\ UNCHANGED store

summary_all_txs ==
    /\ sm.pc = "all_txs"
    /\ sm' = sm_all_txs(sm, get_documents(transaction))
    /\ UNCHANGED <<store, last>>

summary_budgets ==
    /\ sm.pc = "budgets"
    /\ last' = SummaryResponse(sm.month, 200, "", 5, sm_budgets(sm, get_documents(budget)))
    /\ sm' = Idle
    /\ UNCHANGED store

\* ------------------------------------------------------ specifications
\* Requests served one after the other.
Next ==
    \/ \E p \in AccountInputs : create_account(p)
    \/ \E p \in CategoryInputs : create_category(p)
    \/ \E p \in TransactionInputs : create_transaction(p)
    \/ \E p \in BudgetInputs : create_budget(p)
    \/ \E m \in QueryMonths : list_transactions(m)
    \/ \E m \in QueryMonths : list_budgets(m)
    \/ \E m \in QueryMonths : summary(m)

Spec == Init /\ [][Next]_vars

\* Create requests running while a summary request is between two reads.
NextConc ==
    \/ \E p \in ConcAccountInputs : create_account(p)
    \/ \E p \in ConcCategoryInputs : create_category(p)
    \/ \E p \in ConcTransactionInputs : create_transaction(p)
    \/ \E m \in ConcQueryMonths : summary_accounts(m)
    \/ summary_categories
    \/ summary_txs
    \/ summary_all_txs
    \/ summary_budgets

SpecConc == Init /\ [][NextConc]_vars

\* ------------------------------------------------------------ properties
\* What the properties say, in terms of the stored documents.
Range(s) == {s[i] : i \in 1..Len(s)}
Ids(items) == {x.id : x \in Range(items)}

\* A day count that grows with the calendar date.
DayNumber(d) == (d.year * 12 + d.month) * 31 + d.day
FirstDay(month) == Date(month.y, month.m, 1)
Following(month) ==
    IF month.m = 12 THEN Tok(month.y + 1, 1) ELSE Tok(month.y, month.m + 1)

\* start <= d < next, for the first days of the month and of the following one;
\* every date when no month is given.
InMonthOf(d, month) ==
    \/ month.kind = "none"
    \/ /\ DayNumber(FirstDay(month)) <= DayNumber(d)
       /\ DayNumber(d) < DayNumber(FirstDay(Following(month)))

\* The sum of the amounts of the stored transactions that satisfy P.
StoredSum(P(_)) ==
    SumSeq(Map(LAMBDA t : IF P(t) THEN t.amount ELSE 0, transaction))

\* The id text resolves to a document of the collection, as the create
\* handlers look it up.
Resolves(coll, s) == ObjectIdValid(s) /\ find_one(coll, ObjectId(s)) # {}

SummaryOk == last.op = "summary" /\ last.status = 200
ListingOk == last.op = "list_transactions" /\ last.status = 200

\* x comes before y in the listing's order: a later date, or the same date
\* and a later creation timestamp.
MoreRecent(x, y) ==
    \/ DayNumber(fromisoformat(x.date)) > DayNumber(fromisoformat(y.date))
    \/ x.date = y.date /\ x.created_at[1] > y.created_at[1]

Descending(items) ==
    \A i, j \in 1..Len(items) : i < j => MoreRecent(items[i], items[j])

\* C1: in a summary response every account's balance is its initial_balance
\* plus its income transactions minus its expense transactions over the whole
\* stored history (as a 2-decimal figure), whatever the month of the request.
\* A transaction is the account's when its account_id resolves to the account.
C1_BalanceOverFullHistory ==
    SummaryOk =>
        /\ Len(last.body.accounts) = Len(account)
        /\ \A k \in 1..Len(account) :
            LET Mine(t) == ObjectIdValid(t.account_id)
                           /\ ObjectId(t.account_id) = account[k]._id
                Income(t) == Mine(t) /\ t.type = "income"
                Expense(t) == Mine(t) /\ t.type = "expense"
            IN  /\ last.body.accounts[k].id = Str(account[k]._id)
                /\ last.body.accounts[k].balance =
                     Round2(account[k].initial_balance
                            + StoredSum(Income) - StoredSum(Expense))

\* C2: overall_balance is the sum of the unrounded per-account balances,
\* rounded once after the summation.
C2_OverallRoundedAfterSum ==
    SummaryOk =>
        last.body.overall_balance =
            Round2(SumSeq(Map(LAMBDA a : AccountBalance(serialize(a),
                                                        Map(serialize, transaction)),
                              account)))

\* C3: a create-transaction request whose account_id or category_id does not
\* resolve to a stored record gets the "not found" client error, and the
\* request inserts nothing.
C3_UnresolvedReferenceIsNotFound ==
    [][(/\ last'.op = "create_transaction"
        /\ \/ ~Resolves(account, last'.req.account_id)
           \/ ~Resolves(category, last'.req.category_id))
       => /\ last'.status = 400
          /\ last'.detail \in {"Account not found", "Category not found"}
          /\ store' = store]_vars

\* Every stored budget refers to a stored category of type "expense".
BudgetsReferenceExpenseCategories ==
    \A i \in 1..Len(budget) :
        /\ Resolves(category, budget[i].category_id)
        /\ \A j \in find_one(category, ObjectId(budget[i].category_id)) :
               category[j].type = "expense"

\* The answer to a create-budget request that names no expense category.
BudgetRejections ==
    (/\ last.op = "create_budget"
     /\ MatchesPattern(last.req.month)
     /\ ObjectIdValid(last.req.category_id))
    => LET cat == find_one(category, ObjectId(last.req.category_id))
       IN  /\ cat = {} => last.status = 400 /\ last.detail = "Category not found"
           /\ (\E j \in cat : category[j].type = "income")
                => /\ last.status = 400
                   /\ last.detail = "Budget only allowed for expense categories"

C5_HalfOpenMonth ==
    /\ ListingOk =>
         Ids(last.body) =
           {Str(t._id) : t \in {u \in Range(transaction) : InMonthOf(u.date, last.req.month)}}
    /\ SummaryOk =>
         LET Income(t) == InMonthOf(t.date, last.req.month) /\ t.type = "income"
             Expense(t) == InMonthOf(t.date, last.req.month) /\ t.type = "expense"
         IN  /\ last.body.total_income = Round2(StoredSum(Income))
             /\ last.body.total_expense = Round2(StoredSum(Expense))
             /\ Ids(last.body.transactions) =
                  {Str(t._id) :
                     t \in {u \in Range(transaction) : InMonthOf(u.date, last.req.month)}}

C5_Witness ==
    /\ ListingOk
    /\ last.req.month = Tok(2024, 12)
    /\ \E t, u \in Range(transaction) :
        /\ t.date = Date(2024, 12, 1) /\ Str(t._id) \in Ids(last.body)
        /\ u.date = Date(2025, 1, 1) /\ Str(u._id) \notin Ids(last.body)

\* The stored budgets of a month, and what was spent against one of them.
BudgetsOfMonth(month) == SelectSeq(budget, LAMBDA b : b.month = month)

ExactSpent(b, month) ==
    LET Counted(t) == /\ t.type = "expense"
                      /\ InMonthOf(t.date, month)
                      /\ t.category_id = b.category_id
    IN  StoredSum(Counted)

\* C6 as amended: for a summary with month M the budget list has one entry per
\* stored budget whose month is M, in store order; spent is the sum of the
\* expense transactions in M with the budget's category_id, rounded to 2
\* decimals; remaining is the amount minus that sum, rounded to 2 decimals,
\* negative whenever the sum exceeds the amount by more than half a cent;
\* with no month the list is empty.
C6_BudgetStatusRounded ==
    SummaryOk =>
        IF last.req.month.kind = "none" THEN last.body.budgets = <<>>
        ELSE LET bs == BudgetsOfMonth(last.req.month)
                 es == last.body.budgets
             IN  /\ Len(es) = Len(bs)
                 /\ \A k \in 1..Len(bs) :
                     LET sum == ExactSpent(bs[k], last.req.month)
                     IN  /\ es[k].budget_id = Str(bs[k]._id)
                         /\ es[k].spent = Round2(sum)
                         /\ es[k].remaining = Round2(bs[k].amount - sum)
                         /\ sum - bs[k].amount > 5 => es[k].remaining < 0

C6_Witness ==
    /\ SummaryOk
    /\ last.req.month = Tok(2024, 12)
    /\ \E e \in Range(last.body.budgets) : e.remaining < 0 /\ e.spent > e.amount

\* C6 as stated: spent is the sum itself and remaining is the amount minus
\* spent, negative when spent exceeds the amount.
C6_BudgetStatusExact ==
    SummaryOk =>
        IF last.req.month.kind = "none" THEN last.body.budgets = <<>>
        ELSE LET bs == BudgetsOfMonth(last.req.month)
                 es == last.body.budgets
             IN  /\ Len(es) = Len(bs)
                 /\ \A k \in 1..Len(bs) :
                     /\ es[k].budget_id = Str(bs[k]._id)
                     /\ es[k].spent = ExactSpent(bs[k], last.req.month)
                     /\ es[k].remaining = bs[k].amount - es[k].spent
                     /\ es[k].spent > bs[k].amount => es[k].remaining < 0

\* C7: the transaction listing is in descending order of (date, creation
\* timestamp): a later date first, and on one date the later-created first.
C7_ListingDescending == ListingOk => Descending(last.body)

C7_Witness ==
    /\ ListingOk
    /\ Len(last.body) >= 2
    /\ last.body[1].date = last.body[2].date
    /\ last.body[1].created_at[1] > last.body[2].created_at[1]

\* C8: the summary's transactions field holds the most recent 50 transactions
\* in scope, in the listing's order: it is in descending order, and every
\* transaction in it is at least as recent as every one in scope left out.
C8_SummaryListsMostRecent ==
    SummaryOk =>
        LET scope == {u \in Range(Map(serialize, transaction)) :
                        InMonthOf(fromisoformat(u.date), last.req.month)}
            shown == Range(last.body.transactions)
        IN  /\ Descending(last.body.transactions)
            /\ shown \subseteq scope
            /\ Cardinality(shown) =
                 (IF Cardinality(scope) < 50 THEN Cardinality(scope) ELSE 50)
            /\ \A x \in shown, y \in scope \ shown : MoreRecent(x, y)

\* A month token that names no calendar month.
NotACalendarMonth(month) ==
    month.kind # "none" /\ ~(month.kind = "ym" /\ month.m \in 1..12)

\* C9: a request whose month token is not a calendar month YYYY-MM with MM in
\* 01..12 is answered with the validation error before any store access, and
\* no stored budget carries such a token.

C9_MalformedMonthRejected ==
    /\ (/\ last.op \in {"create_budget", "list_transactions", "list_budgets", "summary"}
        /\ NotACalendarMonth(last.req.month))
       => last.status = 422 /\ last.reads = 0
    /\ \A i \in 1..Len(budget) : ~NotACalendarMonth(budget[i].month)

\* Every stored amount is a whole number of currency units.
WholeAmounts ==
    /\ \A a \in Range(account) : a.initial_balance % 1000 = 0
    /\ \A t \in Range(transaction) : t.amount % 1000 = 0

\* C10: with whole amounts, a summary requested without a month has
\* overall_balance equal to the initial balances of the accounts it lists plus
\* its total_income minus its total_expense, also when create requests run
\* between its store reads.
C10_SummaryConsistent ==
    (SummaryOk /\ last.req.month.kind = "none" /\ WholeAmounts) =>
        last.body.overall_balance =
            SumSeq(Map(LAMBDA e : account[ObjectId(e.id)].initial_balance,
                       last.body.accounts))
            + last.body.total_income - last.body.total_expense
====
